---------------------------- MODULE Spec2Model ----------------------------
(***************************************************************************)
(* A model of jikji's src/main.rs: the process start-up (main,             *)
(* parse_config and the serde structures Config / Database / Metric), the  *)
(* three lazily registered prometheus collectors and the scrape handler    *)
(* serve_req, run by several requests at once on the multi-threaded tokio  *)
(* runtime.                                                                *)
(*                                                                         *)
(* Abstractions: the text exposition is a sequence of lines instead of a   *)
(* sequence of bytes, so buffer.len() counts lines; a histogram child is   *)
(* its sample count (the observed durations, hence the finite buckets and  *)
(* the sum, are left out).                                                 *)
(***************************************************************************)
EXTENDS Integers, Sequences, FiniteSets

\* Number of scrape requests the runs contain.
MaxRequests == 2

Requests == 1..MaxRequests

VARIABLES
    file,             \* what example.toml holds on disk (the input of main)
    phase,            \* where main is: start, parsed, listening, exited, panicked
    config,           \* main's local `config`
    registry,         \* names registered in prometheus' default registry
    counter,          \* value of HTTP_COUNTER
    gauge,            \* value of HTTP_BODY_GAUGE
    children,         \* label values HTTP_REQ_HISTOGRAM has a child for
    hist_count,       \* sample count of the "all" child of HTTP_REQ_HISTOGRAM
    pc,               \* per request: the statement of serve_req it is at
    metric_families,  \* per request: serve_req's local `metric_families`
    buffer,           \* per request: serve_req's local `buffer`
    response          \* per request: the value serve_req returned

vars == <<file, phase, config, registry, counter, gauge, children, hist_count,
          pc, metric_families, buffer, response>>

-----------------------------------------------------------------------------
(* TOML documents and their deserialisation into Config.                   *)

U16Max == 65535

TomlString(s) == [t |-> "string", s |-> s, n |-> 0]
TomlInteger(n) == [t |-> "integer", s |-> "", n |-> n]
Absent == [t |-> "absent", s |-> "", n |-> 0]
Arr(a) == [t |-> "array", a |-> a]
NoArr == [t |-> "absent", a |-> <<>>]

\* A [[databases.metrics]] table. Keys serde does not know (type, query) are
\* ignored by the derive and are not represented.
RawMetric(name, frequency) == [name |-> name, frequency |-> frequency]

\* A [[databases]] table with the connection values of the test fixture.
RawDatabase(port, metrics) ==
    [driver |-> TomlString("postgres"), hostname |-> TomlString("127.0.0.1"), port |-> port,
     username |-> TomlString("postgres"), password |-> TomlString("secret"),
     database |-> TomlString("postgres"), metrics |-> metrics]

RawDoc(title, databases) == [title |-> title, databases |-> databases]

\* The frequency strings a metric table is given.
FrequencyStrings == {"15m", "1h", "30s", "0m", "-5m", "abc"}

MetricNames == {"hubspot.actions.delayed", "jobs.delayed"}

\* The document of the tests module.
test_config ==
    RawDoc(TomlString("Default Jikji Config"),
           Arr(<<RawDatabase(TomlInteger(5432),
                   Arr(<<RawMetric(TomlString("hubspot.actions.delayed"), TomlString("15m"))>>))>>))

OneMetricDocs ==
    { RawDoc(TomlString("Default Jikji Config"),
             Arr(<<RawDatabase(TomlInteger(5432), Arr(<<RawMetric(TomlString("jobs.delayed"), TomlString(f))>>))>>))
        : f \in FrequencyStrings }

TwoDatabaseDocs ==
    { RawDoc(TomlString("Default Jikji Config"),
             Arr(<<RawDatabase(TomlInteger(5432),
                     Arr(<<RawMetric(TomlString("hubspot.actions.delayed"), TomlString("15m"))>>)),
                   RawDatabase(TomlInteger(3306),
                     Arr(<<RawMetric(TomlString(n), TomlString("1h")),
                           RawMetric(TomlString("jobs.delayed"), TomlString("30s"))>>))>>))
        : n \in MetricNames }

IllTypedDocs ==
    { RawDoc(Absent, Arr(<<>>)),
      RawDoc(TomlString("Default Jikji Config"), NoArr),
      RawDoc(TomlString("Default Jikji Config"), Arr(<<RawDatabase(TomlInteger(U16Max + 1), Arr(<<>>))>>)),
      RawDoc(TomlString("Default Jikji Config"), Arr(<<RawDatabase(TomlInteger(5432), NoArr)>>)),
      RawDoc(TomlString("Default Jikji Config"),
             Arr(<<RawDatabase(TomlInteger(5432), Arr(<<RawMetric(TomlString("jobs.delayed"), Absent)>>))>>)),
      RawDoc(TomlString("Default Jikji Config"),
             Arr(<<RawDatabase(TomlInteger(5432), Arr(<<RawMetric(TomlString("jobs.delayed"), TomlInteger(15))>>))>>)),
      RawDoc(TomlString("Default Jikji Config"),
             Arr(<<RawDatabase(TomlInteger(5432), Arr(<<RawMetric(Absent, TomlString("15m"))>>))>>)) }

Docs ==
    {test_config, RawDoc(TomlString("Default Jikji Config"), Arr(<<>>))}
        \cup OneMetricDocs \cup TwoDatabaseDocs \cup IllTypedDocs

\* example.toml: not there, not TOML at all, or one of the documents.
ConfigFiles ==
    { [kind |-> k, doc |-> RawDoc(Absent, NoArr)] : k \in {"missing", "garbage"} }
        \cup { [kind |-> "toml", doc |-> d] : d \in Docs }

\* #[derive(Deserialize)] struct Metric { name: String, frequency: String }
MetricOk(m) == m.name.t = "string" /\ m.frequency.t = "string"

Metric(m) == [name |-> m.name.s, frequency |-> m.frequency.s]

\* #[derive(Deserialize)] struct Database: six scalars (port a u16) and metrics.
DatabaseOk(d) ==
    /\ \A k \in {"driver", "hostname", "username", "password", "database"} : d[k].t = "string"
    /\ d.port.t = "integer"
    /\ d.port.n \in 0..U16Max
    /\ d.metrics.t = "array"
    /\ \A i \in 1..Len(d.metrics.a) : MetricOk(d.metrics.a[i])

Database(d) ==
    [driver |-> d.driver.s, hostname |-> d.hostname.s, port |-> d.port.n,
     username |-> d.username.s, password |-> d.password.s, database |-> d.database.s,
     metrics |-> [i \in 1..Len(d.metrics.a) |-> Metric(d.metrics.a[i])]]

\* #[derive(Deserialize)] struct Config { title: String, databases: Vec<Database> }
ConfigOk(doc) ==
    /\ doc.title.t = "string"
    /\ doc.databases.t = "array"
    /\ \A i \in 1..Len(doc.databases.a) : DatabaseOk(doc.databases.a[i])

Config(doc) ==
    [title |-> doc.title.s,
     databases |-> [i \in 1..Len(doc.databases.a) |-> Database(doc.databases.a[i])]]

NoConfig == [title |-> "", databases |-> <<>>]

\* parse_config: read_to_string(..).expect(..), then toml::from_str(..).unwrap().
parse_config(f) ==
    IF f.kind = "toml" /\ ConfigOk(f.doc)
    THEN [ok |-> TRUE, value |-> Config(f.doc)]
    ELSE [ok |-> FALSE, value |-> NoConfig]

-----------------------------------------------------------------------------
(* The collectors of the lazy_static block and the default registry.       *)

HTTP_COUNTER == "example_http_requests_total"
HTTP_BODY_GAUGE == "example_http_response_size_bytes"
HTTP_REQ_HISTOGRAM == "example_http_request_duration_seconds"

\* Registry::gather walks its collectors in the order of their names.
SortedNames == <<HTTP_REQ_HISTOGRAM, HTTP_COUNTER, HTTP_BODY_GAUGE>>

\* One child of a vector, or the one metric of a counter or a gauge.
Sample(handler, value) == [handler |-> handler, value |-> value]

\* Collector::collect of each of the three statics: the counter and the gauge
\* carry the constant label handler="all"; the histogram vector has one metric
\* per child made by with_label_values.
Collect(name) ==
    CASE name = HTTP_COUNTER ->
           [name |-> name, help |-> "Number of HTTP requests made.", type |-> "counter",
            metric |-> <<Sample("all", counter)>>]
      [] name = HTTP_BODY_GAUGE ->
           [name |-> name, help |-> "The HTTP response sizes in bytes.", type |-> "gauge",
            metric |-> <<Sample("all", gauge)>>]
      [] name = HTTP_REQ_HISTOGRAM ->
           [name |-> name, help |-> "The HTTP request latencies in seconds.",
            type |-> "histogram",
            metric |-> IF "all" \in children THEN <<Sample("all", hist_count)>> ELSE <<>>]

\* prometheus::gather(): the families of the registered collectors, sorted by
\* name, the families without any metric pruned.
Gather ==
    SelectSeq([i \in 1..Len(SortedNames) |-> Collect(SortedNames[i])],
              LAMBDA mf : mf.name \in registry /\ Len(mf.metric) > 0)

Line(kind, name, arg, value) == [kind |-> kind, name |-> name, arg |-> arg, value |-> value]

\* The sample lines of one metric of a family.
MetricLines(mf, m) ==
    IF mf.type = "histogram"
    THEN <<Line("bucket", mf.name, "+Inf", m.value), Line("count", mf.name, m.handler, m.value)>>
    ELSE <<Line("sample", mf.name, m.handler, m.value)>>

RECURSIVE SampleLines(_, _)
SampleLines(mf, i) ==
    IF i > Len(mf.metric) THEN <<>>
    ELSE MetricLines(mf, mf.metric[i]) \o SampleLines(mf, i + 1)

\* The text of one family: # HELP, # TYPE, then its samples.
FamilyLines(mf) ==
    <<Line("help", mf.name, mf.help, 0), Line("type", mf.name, mf.type, 0)>>
        \o SampleLines(mf, 1)

RECURSIVE EncodeFrom(_, _)
EncodeFrom(mfs, i) ==
    IF i > Len(mfs) THEN <<>> ELSE FamilyLines(mfs[i]) \o EncodeFrom(mfs, i + 1)

\* TextEncoder::encode: an error for a family without metrics or without a
\* name, else the text of the families in order.
TextEncode(mfs) ==
    IF \E i \in 1..Len(mfs) : Len(mfs[i].metric) = 0 \/ mfs[i].name = ""
    THEN [ok |-> FALSE, text |-> <<>>]
    ELSE [ok |-> TRUE, text |-> EncodeFrom(mfs, 1)]

\* TextEncoder::format_type()
TEXT_FORMAT == "text/plain; version=0.0.4"

NoResponse == [status |-> 0, content_type |-> "", body |-> <<>>]

-----------------------------------------------------------------------------
Init ==
    /\ file \in ConfigFiles
    /\ phase = "start"
    /\ config = NoConfig
    /\ registry = {}
    /\ counter = 0
    /\ gauge = 0
    /\ children = {}
    /\ hist_count = 0
    /\ pc = [r \in Requests |-> "idle"]
    /\ metric_families = [r \in Requests |-> <<>>]
    /\ buffer = [r \in Requests |-> <<>>]
    /\ response = [r \in Requests |-> NoResponse]

metrics == <<registry, counter, gauge, children, hist_count>>
locals == <<metric_families, buffer, response>>
requests == <<pc, metric_families, buffer, response>>

(* main *)

\* let config = parse_config();  a failed expect or unwrap ends the process.
ParseConfig ==
    /\ phase = "start"
    /\ LET parsed == parse_config(file)
       IN IF parsed.ok
          THEN phase' = "parsed" /\ config' = parsed.value
          ELSE phase' = "panicked" /\ config' = config
    /\ UNCHANGED <<file, metrics, requests>>

\* Server::bind(&addr).serve(..): bind panics when the address cannot be bound.
Bind ==
    /\ phase = "parsed"
    /\ \E bound \in BOOLEAN : phase' = IF bound THEN "listening" ELSE "panicked"
    /\ UNCHANGED <<file, config, metrics, requests>>

\* if let Err(err) = serve_future.await { eprintln!(..) }: main returns.
ServerError ==
    /\ phase = "listening"
    /\ phase' = "exited"
    /\ UNCHANGED <<file, config, metrics, requests>>

(* serve_req, one statement at a time *)

Goto(r, to) == pc' = [pc EXCEPT ![r] = to]

\* make_service_fn / service_fn: a connection's request starts serve_req.
\* Requests are numbered in the order they arrive.
Accept(r) ==
    /\ phase = "listening"
    /\ pc[r] = "idle"
    /\ \A q \in Requests : q < r => pc[q] # "idle"
    /\ Goto(r, "counter_deref")
    /\ UNCHANGED <<file, phase, config, metrics, locals>>

\* The first dereference of a lazy static runs its register_*!(..).unwrap()
\* once; a later one finds it initialised.
Register(name) == registry' = registry \cup {name}

\* HTTP_COUNTER (deref)
CounterDeref(r) ==
    /\ pc[r] = "counter_deref"
    /\ Register(HTTP_COUNTER)
    /\ Goto(r, "counter_inc")
    /\ UNCHANGED <<file, phase, config, counter, gauge, children, hist_count, locals>>

\* HTTP_COUNTER.inc();
CounterInc(r) ==
    /\ pc[r] = "counter_inc"
    /\ counter' = counter + 1
    /\ Goto(r, "histogram_deref")
    /\ UNCHANGED <<file, phase, config, registry, gauge, children, hist_count, locals>>

\* HTTP_REQ_HISTOGRAM (deref)
HistogramDeref(r) ==
    /\ pc[r] = "histogram_deref"
    /\ Register(HTTP_REQ_HISTOGRAM)
    /\ Goto(r, "start_timer")
    /\ UNCHANGED <<file, phase, config, counter, gauge, children, hist_count, locals>>

\* let timer = HTTP_REQ_HISTOGRAM.with_label_values(&["all"]).start_timer();
StartTimer(r) ==
    /\ pc[r] = "start_timer"
    /\ children' = children \cup {"all"}
    /\ Goto(r, "gather")
    /\ UNCHANGED <<file, phase, config, registry, counter, gauge, hist_count, locals>>

\* let metric_families = prometheus::gather();
GatherStep(r) ==
    /\ pc[r] = "gather"
    /\ metric_families' = [metric_families EXCEPT ![r] = Gather]
    /\ Goto(r, "encode")
    /\ UNCHANGED <<file, phase, config, metrics, buffer, response>>

\* let mut buffer = vec![]; encoder.encode(&metric_families, &mut buffer).unwrap();
Encode(r) ==
    /\ pc[r] = "encode"
    /\ LET encoded == TextEncode(metric_families[r])
       IN IF encoded.ok
          THEN buffer' = [buffer EXCEPT ![r] = encoded.text] /\ Goto(r, "gauge_deref")
          ELSE buffer' = buffer /\ Goto(r, "panicked")
    /\ UNCHANGED <<file, phase, config, metrics, metric_families, response>>

\* HTTP_BODY_GAUGE (deref)
GaugeDeref(r) ==
    /\ pc[r] = "gauge_deref"
    /\ Register(HTTP_BODY_GAUGE)
    /\ Goto(r, "gauge_set")
    /\ UNCHANGED <<file, phase, config, counter, gauge, children, hist_count, locals>>

\* HTTP_BODY_GAUGE.set(buffer.len() as f64);
GaugeSet(r) ==
    /\ pc[r] = "gauge_set"
    /\ gauge' = Len(buffer[r])
    /\ Goto(r, "respond")
    /\ UNCHANGED <<file, phase, config, registry, counter, children, hist_count, locals>>

\* A response built without its content-type header.
BuildResponseNoHeader(r) ==
    [status |-> 200, content_type |-> "", body |-> buffer[r]]

\* Response::builder().status(200).header(CONTENT_TYPE, ..).body(..).unwrap()
BuildResponse(r) ==
    [status |-> 200, content_type |-> TEXT_FORMAT, body |-> buffer[r]]

\* let response = ..; timer.observe_duration(); Ok(response)
Respond(r) ==
    /\ pc[r] = "respond"
    /\ response' = [response EXCEPT ![r] = BuildResponse(r)]
    /\ buffer' = [buffer EXCEPT ![r] = <<>>]
    /\ hist_count' = hist_count + 1
    /\ Goto(r, "done")
    /\ UNCHANGED <<file, phase, config, registry, counter, gauge, children, metric_families>>

\* One statement of request r's serve_req.
Step(r) ==
    \/ CounterDeref(r)
    \/ CounterInc(r)
    \/ HistogramDeref(r)
    \/ StartTimer(r)
    \/ GatherStep(r)
    \/ Encode(r)
    \/ GaugeDeref(r)
    \/ GaugeSet(r)
    \/ Respond(r)

Next ==
    \/ ParseConfig
    \/ Bind
    \/ ServerError
    \/ \E r \in Requests : Accept(r)
    \/ \E r \in Requests : Step(r)

Spec == Init /\ [][Next]_vars

-----------------------------------------------------------------------------
(* Properties.                                                             *)

\* The statements of serve_req a request can be at before it returns.
InFlight == {"counter_deref", "counter_inc", "histogram_deref", "start_timer", "gather",
             "encode", "gauge_deref", "gauge_set", "respond"}

Started == {"listening", "exited"}

\* The names of the families of a gathered snapshot.
FamilyNames(mfs) == {mfs[i].name : i \in 1..Len(mfs)}

\* A collector some statement has written a value to: an inc of the counter,
\* a set of the gauge (never to 0: every buffer holds the counter's lines),
\* an observation of the histogram.
Populated(name) ==
    CASE name = HTTP_COUNTER -> counter > 0
      [] name = HTTP_BODY_GAUGE -> gauge > 0
      [] name = HTTP_REQ_HISTOGRAM -> hist_count > 0

\* C3: a registered metric that has never been populated is in no exported
\* snapshot. Values are never taken back, so a family of a snapshot that is
\* unpopulated now was unpopulated when the snapshot was gathered.
C3_NeverPopulatedIsAbsent ==
    \A r \in Requests : \A name \in FamilyNames(metric_families[r]) : Populated(name)

\* The metric tables of a parsed configuration, over all its databases.
ConfiguredMetrics(c) ==
    UNION { { <<i, j>> : j \in 1..Len(c.databases[i].metrics) } : i \in 1..Len(c.databases) }

ConfiguredNames(c) == { c.databases[m[1]].metrics[m[2]].name : m \in ConfiguredMetrics(c) }

\* The frequency grammar of the specification, <integer><unit> with unit in
\* {s, m, h} and integer > 0, on the spelling of the strings used here; 0
\* stands for InvalidFrequency.
Spelling(s) ==
    CASE s = "15m" -> <<"1", "5", "m">>
      [] s = "1h" -> <<"1", "h">>
      [] s = "30s" -> <<"3", "0", "s">>
      [] s = "0m" -> <<"0", "m">>
      [] s = "-5m" -> <<"-", "5", "m">>
      [] s = "abc" -> <<"a", "b", "c">>

Digits == <<"0", "1", "2", "3", "4", "5", "6", "7", "8", "9">>

DigitValue(c) == (CHOOSE i \in 1..Len(Digits) : Digits[i] = c) - 1

RECURSIVE Number(_, _)
Number(cs, n) == IF n = 0 THEN 0 ELSE 10 * Number(cs, n - 1) + DigitValue(cs[n])

UnitSeconds(u) == CASE u = "s" -> 1 [] u = "m" -> 60 [] u = "h" -> 3600

FrequencySeconds(s) ==
    LET cs == Spelling(s)
        n == Len(cs)
    IN IF \/ n < 2
          \/ cs[n] \notin {"s", "m", "h"}
          \/ \E i \in 1..(n - 1) : \A d \in 1..Len(Digits) : Digits[d] # cs[i]
       THEN 0
       ELSE Number(cs, n - 1) * UnitSeconds(cs[n])

\* A configuration the specification calls valid: every frequency parses to
\* a positive duration and no metric name is used twice.
ValidConfiguration(c) ==
    /\ \A m \in ConfiguredMetrics(c) :
           FrequencySeconds(c.databases[m[1]].metrics[m[2]].frequency) > 0
    /\ Cardinality(ConfiguredNames(c)) = Cardinality(ConfiguredMetrics(c))

\* C6: once a valid configuration is started the registry holds exactly one
\* entry per configured metric, under that metric's name.
C6_RegistryHoldsOneEntryPerMetric ==
    (phase \in Started /\ ValidConfiguration(config)) =>
        /\ registry = ConfiguredNames(config)
        /\ Cardinality(registry) = Cardinality(ConfiguredMetrics(config))

\* C7: a configuration with a frequency string outside the grammar
\* ("0m", "-5m", "abc") is rejected as a whole: the process never starts to
\* serve with it.
C7_InvalidFrequencyRejectsConfiguration ==
    phase \in Started =>
        \A m \in ConfiguredMetrics(config) :
            FrequencySeconds(config.databases[m[1]].metrics[m[2]].frequency) > 0

\* C8: a scrape never fails, whatever the other requests and the metrics are
\* doing: no request panics, a request in flight can always take its next
\* statement, and a request that returned carries status 200, the exposition
\* content type and, as its body, the encoding of the snapshot it gathered,
\* which counts the request itself.
C8_ScrapeNeverFails ==
    \A r \in Requests :
        /\ pc[r] # "panicked"
        /\ pc[r] \in InFlight => ENABLED Step(r)
        /\ pc[r] = "done" =>
              /\ response[r].status = 200
              /\ response[r].content_type = TEXT_FORMAT
              /\ TextEncode(metric_families[r]).ok
              /\ response[r].body = TextEncode(metric_families[r]).text
              /\ \E i \in 1..Len(response[r].body) :
                     /\ response[r].body[i].kind = "sample"
                     /\ response[r].body[i].name = HTTP_COUNTER
                     /\ response[r].body[i].value >= 1

\* A request has returned its response while another one is still in flight,
\* from a snapshot that already counts both and that was gathered before the
\* gauge was ever registered.
C8_Witness ==
    \E r, q \in Requests :
        /\ r # q
        /\ pc[r] = "done"
        /\ pc[q] \in InFlight
        /\ response[r].status = 200
        /\ HTTP_BODY_GAUGE \notin FamilyNames(metric_families[r])
        /\ \E i \in 1..Len(response[r].body) :
               /\ response[r].body[i].name = HTTP_COUNTER
               /\ response[r].body[i].value = 2

=============================================================================
